---- MODULE Spec2Model ----
(***************************************************************************)
(* A model of blf2mdf: the BLF container reader (src/src/blf_reader.rs),   *)
(* the DBC signal extractor and the per-file pipeline (src/src/main.rs),   *)
(* and the signal store with its stream serialiser                         *)
(* (src/src/data_store.rs) together with the Python reader of that stream  *)
(* (PYTHON_CODE in src/src/main.rs).                                       *)
(*                                                                         *)
(* Representation.                                                         *)
(*   - a byte is an integer 0..255, a byte string a sequence of bytes;     *)
(*   - a u64 / i64 is a sequence of 64 bits, least significant first       *)
(*     (TLC's integers are 32 bits wide);                                  *)
(*   - a timestamp (f64 seconds in the code) is an integer number of       *)
(*     nanoseconds: every timestamp the reader produces is a tick count    *)
(*     times 1e-5 or 1e-9 s.  Rounding of f64 arithmetic is not modelled;  *)
(*   - an f64 physical value is a 64-bit two's-complement count of halves  *)
(*     (fixed point, one fractional bit); factors and offsets of the       *)
(*     descriptors are counts of halves too;                               *)
(*   - f64::to_le_bytes is modelled as the 8 little-endian bytes of that   *)
(*     64-bit pattern (the IEEE-754 layout itself is not modelled).        *)
(***************************************************************************)
EXTENDS Integers, Sequences, FiniteSets, TLC

VARIABLES
  \* ---- DataStore and its stream (data_store.rs, PYTHON_CODE) ----
  data,        \* DataStore.data: name -> [kind, points]
  panicked,    \* the process has panicked (it runs no further)
  stream,      \* the bytes write_to_stream has written
  loaded,      \* what load_from_stdin yielded from the stream
  phase,       \* position of the running program
  pushed,      \* history: per name, the points in push order
  op,          \* history: the last operation and its arguments
  \* ---- one call of process_signal (main.rs) ----
  sig,         \* the arguments of the call
  res,         \* what the call computed
  overflow_checks,  \* the build panics on integer overflow (debug profile)
  \* ---- the message loop of process_file (main.rs) ----
  first_timestamp,  \* the timestamp of the first frame, F64_MAX before it
  frames,      \* history: the frames read so far and how each was treated
  contributions,  \* history: the points pushed, with the signal they are of
  \* ---- BlfReader (blf_reader.rs) ----
  input,       \* the objects of the file and how they are cut in containers
  containers,  \* the uncompressed container payloads still to be parsed
  self_tail,   \* BlfReader.tail
  self_pos,    \* BlfReader.pos
  all_messages,  \* the frames parse_container_data has produced
  \* ---- the file loop of main (main.rs) ----
  entries      \* the .blf files of the folder still to be processed

store_vars == <<data, panicked, stream, loaded, phase, pushed, op>>

sig_vars == <<sig, res>>

file_vars == <<first_timestamp, frames, contributions>>

reader_vars == <<input, containers, self_tail, self_pos, all_messages>>

main_vars == <<entries>>

vars ==
  <<store_vars, sig_vars, overflow_checks, file_vars, reader_vars, main_vars>>

\* f64::MAX, the value first_timestamp holds before the first frame
F64_MAX == 2147483647

\* process_file has read no frame
FileIdle ==
  first_timestamp = F64_MAX /\ frames = <<>> /\ contributions = <<>>

\* No folder is being processed
MainIdle == entries = <<>>

\* No reader is being looked at
ReaderIdle ==
  /\ input = <<>>
  /\ containers = <<>>
  /\ self_tail = <<>>
  /\ self_pos = 0
  /\ all_messages = <<>>

(***************************************************************************)
(* Bits and bytes                                                          *)
(***************************************************************************)
Pow2(n) == 2 ^ n

Zero64 == [i \in 1..64 |-> 0]

Ones64 == [i \in 1..64 |-> 1]

\* The 64-bit two's complement pattern of an integer n, -2^30 <= n < 2^30
\* (`n as i64` / `n as u64` for a small n).
IntTo64(n) ==
  [i \in 1..64 |-> IF i <= 30 THEN ((n % Pow2(30)) \div Pow2(i - 1)) % 2
                   ELSE IF n < 0 THEN 1 ELSE 0]

RECURSIVE SumBits(_, _)
SumBits(b, n) == IF n = 0 THEN 0 ELSE b[n] * Pow2(n - 1) + SumBits(b, n - 1)

\* A 64-bit pattern holds a small integer when bits 30..63 repeat the sign.
FitsInt(b) == \A i \in 31..64 : b[i] = b[64]

\* The integer a 64-bit two's complement pattern stands for (when FitsInt).
I64ToInt(b) == SumBits(b, 30) - b[64] * Pow2(30)

\* u64::to_le_bytes / i64::to_le_bytes / f64::to_le_bytes
LeBytes(b) ==
  [j \in 1..8 |->
     LET o == 8 * (j - 1)
     IN b[o + 1] + 2 * b[o + 2] + 4 * b[o + 3] + 8 * b[o + 4] + 16 * b[o + 5]
          + 32 * b[o + 6] + 64 * b[o + 7] + 128 * b[o + 8]]

\* u64::from_le_bytes, numpy .view(np.int64 / np.uint64 / np.float64)
FromLeBytes(bytes) ==
  [i \in 1..64 |-> (bytes[((i - 1) \div 8) + 1] \div Pow2((i - 1) % 8)) % 2]

\* (n as u16).to_le_bytes()
U16Bytes(n) == <<(n % 65536) % 256, (n % 65536) \div 256>>

\* struct.unpack('<H', ...)
U16FromBytes(b) == b[1] + 256 * b[2]

\* (n as u32).to_le_bytes(), for a length n < 2^31
U32Bytes(n) == [j \in 1..4 |-> (n \div (256 ^ (j - 1))) % 256]

\* struct.unpack('<I', ...), for a value < 2^31
U32FromBytes(b) == b[1] + 256 * b[2] + 65536 * b[3] + 16777216 * b[4]

\* f64::to_le_bytes of a timestamp
F64Bytes(t) == LeBytes(IntTo64(t))

\* struct.unpack('<d', ...) / .view(np.float64) of a timestamp
F64FromBytes(b) == I64ToInt(FromLeBytes(b))

RECURSIVE Concat(_)
Concat(ss) == IF ss = <<>> THEN <<>> ELSE Head(ss) \o Concat(Tail(ss))

(***************************************************************************)
(* DataStore (data_store.rs)                                               *)
(***************************************************************************)
Kinds == {"I64", "U64", "F64", "String"}

\* DataPoint<T>::new; kind is the T of the DataPoint<T>
DataPoint(timestamp, value, kind) ==
  [timestamp |-> timestamp, value |-> value, kind |-> kind]

\* DataStore::new
NewStore == [n \in {} |-> 0]

\* A push that appends whatever the type of the series (no downcast check).
PushUnchecked(d, key, kind, timestamp, value) ==
  LET entry == IF key \in DOMAIN d THEN d[key]
               ELSE [kind |-> kind, points |-> <<>>]
      d1 == [n \in DOMAIN d \cup {key} |-> IF n = key THEN entry ELSE d[n]]
  IN [data |-> [d1 EXCEPT ![key].points =
                   Append(@, DataPoint(timestamp, value, kind))],
      panic |-> FALSE]

\* DataStore::push::<T>: the store after the call and whether it panicked.
Push(d, key, kind, timestamp, value) ==
  LET entry == IF key \in DOMAIN d THEN d[key]
               ELSE [kind |-> kind, points |-> <<>>]
      d1 == [n \in DOMAIN d \cup {key} |-> IF n = key THEN entry ELSE d[n]]
  IN IF entry.kind = kind
     THEN [data |-> [d1 EXCEPT ![key].points =
                       Append(@, DataPoint(timestamp, value, kind))],
           panic |-> FALSE]
     ELSE [data |-> d1, panic |-> TRUE]

\* DataStore::signal_count
signal_count(d) == Cardinality(DOMAIN d)

\* Vec::sort_by with the comparator a.timestamp.partial_cmp(&b.timestamp):
\* a stable sort; p goes after every element that does not compare Greater.
RECURSIVE InsertSorted(_, _)
InsertSorted(sorted, p) ==
  IF sorted = <<>> THEN <<p>>
  ELSE IF Head(sorted).timestamp <= p.timestamp
       THEN <<Head(sorted)>> \o InsertSorted(Tail(sorted), p)
       ELSE <<p>> \o sorted

\* A sort that puts p before the elements of equal timestamp (not stable).
RECURSIVE InsertSortedUnstable(_, _)
InsertSortedUnstable(sorted, p) ==
  IF sorted = <<>> THEN <<p>>
  ELSE IF Head(sorted).timestamp < p.timestamp
       THEN <<Head(sorted)>> \o InsertSortedUnstable(Tail(sorted), p)
       ELSE <<p>> \o sorted

RECURSIVE SortPointsUnstable(_)
SortPointsUnstable(pts) ==
  IF pts = <<>> THEN <<>>
  ELSE InsertSortedUnstable(SortPointsUnstable(SubSeq(pts, 1, Len(pts) - 1)),
                            pts[Len(pts)])

RECURSIVE SortPoints(_)
SortPoints(pts) ==
  IF pts = <<>> THEN <<>>
  ELSE InsertSorted(SortPoints(SubSeq(pts, 1, Len(pts) - 1)), pts[Len(pts)])

\* DataStore::sort_by_timestamp
sort_by_timestamp(d) ==
  [n \in DOMAIN d |-> [d[n] EXCEPT !.points = SortPoints(@)]]

\* The 8-byte magic "BLF2MDF\x01"
Magic == <<66, 76, 70, 50, 77, 68, 70, 1>>

\* The type marker write_to_stream writes for a series
TypeMarker(kind) ==
  CASE kind = "I64" -> 1 [] kind = "U64" -> 2 [] kind = "F64" -> 3
    [] kind = "String" -> 4

\* A writer that puts the value before the timestamp.
PointBytesValueFirst(kind, p) ==
  IF kind = "String"
  THEN U16Bytes(Len(p.value)) \o p.value \o F64Bytes(p.timestamp)
  ELSE LeBytes(p.value) \o F64Bytes(p.timestamp)

PointBytes(kind, p) ==
  IF kind = "String"
  THEN F64Bytes(p.timestamp) \o U16Bytes(Len(p.value)) \o p.value
  ELSE F64Bytes(p.timestamp) \o LeBytes(p.value)

SeriesBytes(key, s) ==
  U16Bytes(Len(key)) \o key \o <<TypeMarker(s.kind)>>
    \o U32Bytes(Len(s.points))
    \o Concat([i \in 1..Len(s.points) |-> PointBytes(s.kind, s.points[i])])

\* The orders in which a HashMap with these keys may be iterated.
KeyOrders(keys) ==
  {o \in [1..Cardinality(keys) -> keys] :
     \A i, j \in 1..Cardinality(keys) : i # j => o[i] # o[j]}

\* DataStore::write_to_stream: the store is sorted in place, then written in
\* the HashMap's iteration order `order`.
write_to_stream(d, order) ==
  LET sorted == sort_by_timestamp(d)
  IN [data |-> sorted,
      bytes |-> Magic \o U32Bytes(signal_count(sorted))
                  \o Concat([i \in 1..Len(order) |->
                               SeriesBytes(order[i], sorted[order[i]])])]

(***************************************************************************)
(* load_from_stdin (PYTHON_CODE in main.rs): the reader of the stream      *)
(***************************************************************************)
\* There are n bytes at pos (reader.read(n) returns all n)
Avail(bytes, pos, n) == pos + n - 1 <= Len(bytes)

Read(bytes, pos, n) == SubSeq(bytes, pos, pos + n - 1)

\* "ensure monotonic increasing": a timestamp <= the last one yielded becomes
\* the last one + 1e-9 (one nanosecond)
BumpTimestamps(raw) ==
  LET F[i \in 0..Len(raw)] ==
        IF i = 0 THEN <<>>
        ELSE LET prev == F[i - 1]
             IN Append(prev, IF i > 1 /\ raw[i] <= prev[i - 1]
                             THEN prev[i - 1] + 1 ELSE raw[i])
  IN F[Len(raw)]

\* A reader that leaves the timestamps as they are in the stream.
KeepTimestamps(raw) == raw

\* The kind a type marker stands for
MarkerKind(m) ==
  CASE m = 1 -> "I64" [] m = 2 -> "U64" [] m = 3 -> "F64" [] m = 4 -> "String"
    [] OTHER -> "Unknown"

\* type_marker in [1, 2, 3]: data_count rows of 16 bytes
ParseNumeric(bytes, pos, count) ==
  IF ~Avail(bytes, pos, count * 16)
  THEN [ok |-> FALSE, next |-> pos, timestamps |-> <<>>, values |-> <<>>]
  ELSE [ok |-> TRUE, next |-> pos + count * 16,
        timestamps |-> BumpTimestamps(
           [i \in 1..count |-> F64FromBytes(Read(bytes, pos + 16 * (i - 1), 8))]),
        values |->
           [i \in 1..count |-> FromLeBytes(Read(bytes, pos + 16 * (i - 1) + 8, 8))]]

\* type_marker == 4: data_count times (timestamp, value_len, value)
RECURSIVE ParseStrings(_, _, _)
ParseStrings(bytes, pos, count) ==
  IF count = 0
  THEN [ok |-> TRUE, next |-> pos, timestamps |-> <<>>, values |-> <<>>]
  ELSE IF ~Avail(bytes, pos, 10)
  THEN [ok |-> FALSE, next |-> pos, timestamps |-> <<>>, values |-> <<>>]
  ELSE LET t == F64FromBytes(Read(bytes, pos, 8))
           vlen == U16FromBytes(Read(bytes, pos + 8, 2))
           rest == ParseStrings(bytes, pos + 10 + vlen, count - 1)
       IN IF ~Avail(bytes, pos + 10, vlen)
          THEN [ok |-> FALSE, next |-> pos, timestamps |-> <<>>, values |-> <<>>]
          ELSE [ok |-> rest.ok, next |-> rest.next,
                timestamps |-> <<t>> \o rest.timestamps,
                values |-> <<Read(bytes, pos + 10, vlen)>> \o rest.values]

\* One pass of the `for _ in range(signal_count)` loop: what it yields
ParseSignal(bytes, pos) ==
  IF ~Avail(bytes, pos, 2) THEN [ok |-> FALSE, next |-> pos, yield |-> <<>>]
  ELSE
  LET name_len == U16FromBytes(Read(bytes, pos, 2))
      p1 == pos + 2 + name_len
  IN IF ~Avail(bytes, pos + 2, name_len + 5)
     THEN [ok |-> FALSE, next |-> pos, yield |-> <<>>]
     ELSE
     LET signal_name == Read(bytes, pos + 2, name_len)
         type_marker == bytes[p1]
         data_count == U32FromBytes(Read(bytes, p1 + 1, 4))
         body == IF type_marker \in {1, 2, 3}
                 THEN ParseNumeric(bytes, p1 + 5, data_count)
                 ELSE ParseStrings(bytes, p1 + 5, data_count)
     IN IF type_marker \notin {1, 2, 3, 4}
        THEN [ok |-> TRUE, next |-> p1 + 5, yield |-> <<>>]
        ELSE [ok |-> body.ok, next |-> body.next,
              yield |-> <<[name |-> signal_name,
                           kind |-> MarkerKind(type_marker),
                           timestamps |-> IF type_marker = 4
                                          THEN BumpTimestamps(body.timestamps)
                                          ELSE body.timestamps,
                           values |-> body.values]>>]

RECURSIVE ParseSignals(_, _, _)
ParseSignals(bytes, pos, n) ==
  IF n = 0 THEN [ok |-> TRUE, signals |-> <<>>]
  ELSE LET r == ParseSignal(bytes, pos)
           rest == ParseSignals(bytes, r.next, n - 1)
       IN IF ~r.ok THEN [ok |-> FALSE, signals |-> <<>>]
          ELSE [ok |-> rest.ok, signals |-> r.yield \o rest.signals]

\* load_from_stdin: the signals it yields, or a raised error
load_from_stdin(bytes) ==
  IF ~Avail(bytes, 1, 12) \/ Read(bytes, 1, 8) # Magic
  THEN [ok |-> FALSE, signals |-> <<>>]
  ELSE ParseSignals(bytes, 13, U32FromBytes(Read(bytes, 9, 4)))

(***************************************************************************)
(* The store on its own: any sequence of pushes, then write_to_stream and  *)
(* load_from_stdin on the bytes written.                                   *)
(***************************************************************************)
MaxPushes == 3

\* The timestamps pushed (nanoseconds)
StoreTimes == {0, 1}

\* "A", "B1"
StoreNames == {<<65>>, <<66, 49>>}

\* The values pushed: -1 and 5 as i64; 7 and u64::MAX; 1.5 and -2.0 as f64;
\* "hi" and "" as String
PushValues(kind) ==
  CASE kind = "I64" -> {IntTo64(-1), IntTo64(5)}
    [] kind = "U64" -> {IntTo64(7), Ones64}
    [] kind = "F64" -> {IntTo64(3), IntTo64(-4)}
    [] kind = "String" -> {<<104, 105>>, <<>>}

RECURSIVE NPoints(_, _)
NPoints(d, names) ==
  IF names = {} THEN 0
  ELSE LET n == CHOOSE x \in names : TRUE
       IN Len(d[n]) + NPoints(d, names \ {n})

NoOp == [name |-> "none"]

\* No call of process_signal is being looked at
SigIdle == sig = NoOp /\ res = NoOp

StoreInit ==
  /\ data = NewStore
  /\ panicked = FALSE
  /\ stream = <<>>
  /\ loaded = [ok |-> FALSE, signals |-> <<>>]
  /\ phase = "build"
  /\ pushed = NewStore
  /\ op = NoOp

\* The history of pushes after one more point
Pushed(h, key, p) ==
  [n \in DOMAIN h \cup {key} |->
     IF n = key THEN (IF key \in DOMAIN h THEN Append(h[key], p) ELSE <<p>>)
     ELSE h[n]]

\* push_int / push_uint / push_float / push_string
StorePush ==
  /\ phase = "build"
  /\ NPoints(pushed, DOMAIN pushed) < MaxPushes
  /\ \E key \in StoreNames, kind \in Kinds, timestamp \in StoreTimes :
       \E value \in PushValues(kind) :
         \E r \in {Push(data, key, kind, timestamp, value)} :
            /\ data' = r.data
            /\ panicked' = r.panic
            /\ phase' = IF r.panic THEN "panic" ELSE "build"
            /\ pushed' = IF r.panic THEN pushed
                         ELSE Pushed(pushed, key, DataPoint(timestamp, value, kind))
            /\ op' = [name |-> "push", key |-> key, kind |-> kind]
  /\ UNCHANGED <<stream, loaded>>

\* write_to_stream(writer)
StoreWrite ==
  /\ phase = "build"
  /\ \E order \in KeyOrders(DOMAIN data) :
       \E r \in {write_to_stream(data, order)} :
          /\ data' = r.data
          /\ stream' = r.bytes
  /\ phase' = "written"
  /\ op' = [name |-> "write"]
  /\ UNCHANGED <<panicked, loaded, pushed>>

\* the child process reads the stream
StoreLoad ==
  /\ phase = "written"
  /\ loaded' = load_from_stdin(stream)
  /\ phase' = "loaded"
  /\ op' = [name |-> "load"]
  /\ UNCHANGED <<data, panicked, stream, pushed>>

StoreNext ==
  \/ StorePush /\ UNCHANGED <<sig_vars, overflow_checks, file_vars, reader_vars, main_vars>>
  \/ StoreWrite /\ UNCHANGED <<sig_vars, overflow_checks, file_vars, reader_vars, main_vars>>
  \/ StoreLoad /\ UNCHANGED <<sig_vars, overflow_checks, file_vars, reader_vars, main_vars>>

\* A fresh store, nothing else running
StoreOnlyInit ==
  /\ StoreInit
  /\ SigIdle
  /\ FileIdle
  /\ ReaderIdle
  /\ MainIdle
  /\ overflow_checks = TRUE

SpecStore == StoreOnlyInit /\ [][StoreNext]_vars

(***************************************************************************)
(* 128-bit two's complement arithmetic on 16 little-endian bytes, wide     *)
(* enough to hold factor * raw + offset exactly and so to tell whether the *)
(* 64-bit operation overflows.  Factors and offsets are below 2^22.        *)
(***************************************************************************)
\* i64 -> i128 (sign extension), u64 -> i128 (zero extension)
Wide(b, is_signed) ==
  LeBytes(b) \o [i \in 1..8 |-> IF is_signed /\ b[64] = 1 THEN 255 ELSE 0]

\* A small integer as i128
WideInt(n) ==
  [i \in 1..16 |-> IF i <= 3 THEN ((n % 16777216) \div (256 ^ (i - 1))) % 256
                   ELSE IF n < 0 THEN 255 ELSE 0]

RECURSIVE AddFrom(_, _, _, _)
AddFrom(x, y, i, c) ==
  IF i > Len(x) THEN <<>>
  ELSE <<(x[i] + y[i] + c) % 256>>
         \o AddFrom(x, y, i + 1, (x[i] + y[i] + c) \div 256)

\* wrapping addition
WideAdd(x, y) == AddFrom(x, y, 1, 0)

WideNeg(x) == WideAdd([i \in 1..16 |-> 255 - x[i]], WideInt(1))

RECURSIVE MulFrom(_, _, _, _)
MulFrom(x, a, i, c) ==
  IF i > Len(x) THEN <<>>
  ELSE <<(x[i] * a + c) % 256>> \o MulFrom(x, a, i + 1, (x[i] * a + c) \div 256)

\* x times a small integer a (wrapping at 128 bits)
WideMul(x, a) == IF a < 0 THEN WideNeg(MulFrom(x, -a, 1, 0)) ELSE MulFrom(x, a, 1, 0)

\* The exact value fits i64 / u64 (the 64-bit operation does not overflow)
FitsI64(w) == \A i \in 9..16 : w[i] = (IF w[8] >= 128 THEN 255 ELSE 0)

FitsU64(w) == \A i \in 9..16 : w[i] = 0

\* The wrapped 64-bit result
Low64(w) == FromLeBytes(SubSeq(w, 1, 8))

(***************************************************************************)
(* Signal extraction and scaling (main.rs)                                 *)
(***************************************************************************)
None == [some |-> FALSE, value |-> Zero64]

Some(v) == [some |-> TRUE, value |-> v]

\* The bit of a byte counted from its most significant end.
DataBitMsbFirst(bytes, absolute_bit) ==
  (bytes[(absolute_bit \div 8) + 1] \div Pow2(7 - (absolute_bit % 8))) % 2

\* (data[byte_index] >> bit_in_byte) & 1 with byte_index = absolute_bit / 8,
\* bit_in_byte = absolute_bit % 8
DataBit(bytes, absolute_bit) ==
  (bytes[(absolute_bit \div 8) + 1] \div Pow2(absolute_bit % 8)) % 2

\* extract_signal_raw
extract_signal_raw(bytes, start_bit, bit_count, is_big_endian) ==
  LET total_bits == Len(bytes) * 8
  IN IF bit_count = 0 \/ bit_count > 64 THEN None
     ELSE IF start_bit >= total_bits THEN None
     ELSE IF is_big_endian
     THEN IF start_bit < bit_count - 1 THEN None
          ELSE Some([i \in 1..64 |->
                 LET bit_index == i - 1
                     absolute_bit == start_bit - bit_index
                 IN IF bit_index < bit_count /\ absolute_bit < total_bits
                       /\ absolute_bit \div 8 < Len(bytes)
                    THEN DataBit(bytes, absolute_bit) ELSE 0])
     ELSE Some([i \in 1..64 |->
                 LET bit_index == i - 1
                     absolute_bit == start_bit + bit_index
                 IN IF bit_index < bit_count /\ absolute_bit < total_bits
                       /\ absolute_bit \div 8 < Len(bytes)
                    THEN DataBit(bytes, absolute_bit) ELSE 0])

\* A conversion that masks the value and leaves the upper bits zero.
SignedValueNoExtension(raw_value, bit_count) ==
  IF bit_count < 64
  THEN [i \in 1..64 |-> IF i <= bit_count THEN raw_value[i] ELSE 0]
  ELSE raw_value

\* process_signal, `signed_value`: the raw value as i64
SignedValue(raw_value, bit_count) ==
  IF bit_count < 64
  THEN LET masked_value == [i \in 1..64 |->
                              IF i <= bit_count THEN raw_value[i] ELSE 0]
       IN IF masked_value[bit_count] # 0
          THEN [i \in 1..64 |-> IF i <= bit_count THEN masked_value[i] ELSE 1]
          ELSE masked_value
  ELSE raw_value

\* `factor as i64`, `offset as i64` (of a count of halves): truncation
\* towards zero
AsI64(halves) == IF halves >= 0 THEN halves \div 2 ELSE -((-halves) \div 2)

\* `factor as u64`, `offset as u64`: truncation, a negative value gives 0
AsU64(halves) == IF halves >= 0 THEN halves \div 2 ELSE 0

\* f64::fract() != 0.0
HasFract(halves) == halves % 2 # 0

\* process_signal.  factor and offset are counts of halves; overflow_checks
\* is the build's setting (on in a debug build: an overflowing * or +
\* panics; off in a release build: it wraps).  The result is the store after
\* the call, whether the call panicked, and the values it computed.
process_signal(d, msg_data, start_bit, bit_count, is_big_endian, is_signed, store_as_float, factor, offset, signal_name, msg_timestamp, checks) ==
  LET raw == extract_signal_raw(msg_data, start_bit, bit_count, is_big_endian)
      signed_value == IF raw.some THEN SignedValue(raw.value, bit_count)
                      ELSE Zero64
      w == IF is_signed THEN Wide(signed_value, TRUE) ELSE Wide(raw.value, FALSE)
      f == IF store_as_float THEN factor
           ELSE IF is_signed THEN AsI64(factor) ELSE AsU64(factor)
      o == IF store_as_float THEN offset
           ELSE IF is_signed THEN AsI64(offset) ELSE AsU64(offset)
      product == WideMul(w, f)
      sum == WideAdd(IF store_as_float THEN product ELSE Wide(Low64(product), is_signed),
                     WideInt(o))
      overflow == /\ ~store_as_float
                  /\ IF is_signed THEN ~FitsI64(product) \/ ~FitsI64(sum)
                     ELSE ~FitsU64(product) \/ ~FitsU64(sum)
      kind == IF store_as_float THEN "F64" ELSE IF is_signed THEN "I64" ELSE "U64"
      physical_value == Low64(sum)
      r == Push(d, signal_name, kind, msg_timestamp, physical_value)
      out == [raw |-> raw, signed_value |-> signed_value, kind |-> kind,
              physical_value |-> physical_value]
  IN IF ~raw.some
     THEN out @@ [data |-> d, panic |-> FALSE, pushed |-> FALSE]
     ELSE IF overflow /\ checks
     THEN out @@ [data |-> d, panic |-> TRUE, pushed |-> FALSE]
     ELSE out @@ [data |-> r.data, panic |-> r.panic, pushed |-> ~r.panic]

(***************************************************************************)
(* One call of process_signal on a fresh store, for every start bit, bit   *)
(* count, byte order and signedness, on buffers that hold a value packed   *)
(* LSB-first at (start_bit, bit_count) and on the frames of scenarios S1   *)
(* and S2.                                                                 *)
(***************************************************************************)
MaxStartBit == 8

\* 0 and 65 are the bit counts extract_signal_raw rejects
BitCounts == 0..65

ValuePatterns == {"ones", "msb", "lsb", "alt"}

\* A value below 2^bit_count
PatternValue(pat, bit_count) ==
  [i \in 1..64 |->
     IF i > bit_count THEN 0
     ELSE CASE pat = "ones" -> 1
            [] pat = "msb" -> IF i = bit_count THEN 1 ELSE 0
            [] pat = "lsb" -> IF i = 1 THEN 1 ELSE 0
            [] pat = "alt" -> i % 2]

\* value packed LSB-first at (start_bit, bit_count) into a zeroed buffer of
\* ceil((start_bit + bit_count) / 8) bytes
PackLE(value, start_bit, bit_count) ==
  LET bit(a) == IF a >= start_bit /\ a < start_bit + bit_count /\ a - start_bit < 64
                THEN value[a - start_bit + 1] ELSE 0
  IN [j \in 1..((start_bit + bit_count + 7) \div 8) |->
        LET o == 8 * (j - 1)
        IN bit(o) + 2 * bit(o + 1) + 4 * bit(o + 2) + 8 * bit(o + 3)
             + 16 * bit(o + 4) + 32 * bit(o + 5) + 64 * bit(o + 6)
             + 128 * bit(o + 7)]

\* Scenario S1: [0x34, 0x12, 0, 0, 0, 0, 0, 0]
FrameS1 == <<52, 18, 0, 0, 0, 0, 0, 0>>

\* Scenario S2: [0x12, 0x34, 0, 0, 0, 0, 0, 0]
FrameS2 == <<18, 52, 0, 0, 0, 0, 0, 0>>

\* "S"
SigName == <<83>>

\* The bit counts tried on the frames of S1 and S2
FrameBitCounts == {8, 16}

SigInit ==
  /\ \E start_bit \in 0..MaxStartBit, is_big_endian \in BOOLEAN,
        is_signed \in BOOLEAN :
       \/ \E pat \in ValuePatterns, bit_count \in BitCounts :
            sig = [name |-> "packed",
                   value |-> PatternValue(pat, bit_count),
                   data |-> PackLE(PatternValue(pat, bit_count), start_bit, bit_count),
                   start_bit |-> start_bit, bit_count |-> bit_count,
                   is_big_endian |-> is_big_endian, is_signed |-> is_signed]
       \/ \E frame \in {FrameS1, FrameS2}, bit_count \in FrameBitCounts :
            sig = [name |-> "frame", value |-> Zero64, data |-> frame,
                   start_bit |-> start_bit, bit_count |-> bit_count,
                   is_big_endian |-> is_big_endian, is_signed |-> is_signed]
  /\ res = NoOp
  /\ overflow_checks = TRUE
  /\ StoreInit
  /\ FileIdle
  /\ ReaderIdle
  /\ MainIdle

\* process_signal(msg_data, ..., factor = 1.0, offset = 0.0, ...)
SigCall ==
  /\ res = NoOp
  /\ \E r \in {process_signal(data, sig.data, sig.start_bit, sig.bit_count,
                               sig.is_big_endian, sig.is_signed, FALSE, 2, 0,
                               SigName, 0, overflow_checks)} :
        /\ res' = [name |-> "process_signal", raw |-> r.raw,
                   signed_value |-> r.signed_value, kind |-> r.kind,
                   pushed |-> r.pushed]
        /\ data' = r.data
        /\ panicked' = r.panic
  /\ UNCHANGED <<sig, overflow_checks, stream, loaded, phase, pushed, op>>
  /\ UNCHANGED <<file_vars, reader_vars, main_vars>>

SigNext == SigCall

SpecSignal == SigInit /\ [][SigNext]_vars

(***************************************************************************)
(* The DBC index.  A signal descriptor carries the fields can_dbc parses:  *)
(* name, start_bit, signal_size, byte_order, value_type, factor, offset    *)
(* (counts of halves) and multiplexer_indicator.  A DBC is its messages,   *)
(* its SIG_VALTYPE_ entries and the ids of the messages that carry         *)
(* extended multiplexing (SG_MUL_VAL_) entries.                            *)
(***************************************************************************)
Plain == [ind |-> "Plain", mux_idx |-> Zero64]

Multiplexor == [ind |-> "Multiplexor", mux_idx |-> Zero64]

MultiplexedSignal(k) == [ind |-> "MultiplexedSignal", mux_idx |-> IntTo64(k)]

Signal(name, start_bit, signal_size, byte_order, value_type, factor, offset, multiplexer_indicator) ==
  [name |-> name, start_bit |-> start_bit, signal_size |-> signal_size,
   byte_order |-> byte_order, value_type |-> value_type, factor |-> factor,
   offset |-> offset, multiplexer_indicator |-> multiplexer_indicator]

\* Bus 0, first DBC: message 0x100 with a 4-bit switch "Mux", the plain
\* signal "P" and the muxed signals "M1" (k = 1) and "M2" (k = 2, signed);
\* the SIG_VALTYPE_ entry of "F" of message 0x200
DbcMux ==
  [messages |-> <<
     [message_id |-> 256,
      signals |-> <<
        Signal(<<77, 117, 120>>, 0, 4, "LittleEndian", "Unsigned", 2, 0, Multiplexor),
        Signal(<<80>>, 4, 4, "LittleEndian", "Unsigned", 2, 0, Plain),
        Signal(<<77, 49>>, 8, 8, "LittleEndian", "Unsigned", 2, 0, MultiplexedSignal(1)),
        Signal(<<77, 50>>, 8, 8, "LittleEndian", "Signed", 2, 0, MultiplexedSignal(2))>>]>>,
   value_types |-> <<[message_id |-> 512, signal_name |-> <<70>>,
                      signal_extended_value_type |-> "IEEEfloat32Bit"]>>,
   extended_multiplex |-> {}]

\* Bus 0, second DBC: message 0x200 with "Sh", "H" (factor 0.5),
\* "O" (signed, offset 0.5) and "F" (SIG_VALTYPE_ 1, IEEE float, in the
\* first DBC of the bus)
DbcPlain ==
  [messages |-> <<
     [message_id |-> 512,
      signals |-> <<
        Signal(<<83, 104>>, 0, 8, "LittleEndian", "Unsigned", 2, 0, Plain),
        Signal(<<72>>, 8, 8, "LittleEndian", "Unsigned", 1, 0, Plain),
        Signal(<<79>>, 8, 8, "LittleEndian", "Signed", 2, 1, Plain),
        Signal(<<70>>, 0, 8, "LittleEndian", "Signed", 2, 0, Plain)>>]>>,
   value_types |-> <<[message_id |-> 512, signal_name |-> <<72>>,
                      signal_extended_value_type |-> "SignedOrUnsignedInteger"]>>,
   extended_multiplex |-> {}]

\* Bus 1: message 0x200 with "Sh" again (same kind as on bus 0) and "N"
\* (unsigned, offset -40); message 0x300 with extended multiplexing;
\* message 0x400 with the plain signal "Q" in byte 0 and the switch "Sw" in
\* byte 1
DbcOther ==
  [messages |-> <<
     [message_id |-> 512,
      signals |-> <<
        Signal(<<83, 104>>, 8, 8, "LittleEndian", "Unsigned", 2, 0, Plain),
        Signal(<<78>>, 0, 8, "LittleEndian", "Unsigned", 2, -80, Plain)>>],
     [message_id |-> 768,
      signals |-> <<
        Signal(<<88>>, 0, 8, "LittleEndian", "Unsigned", 2, 0, Multiplexor)>>],
     [message_id |-> 1024,
      signals |-> <<
        Signal(<<81>>, 0, 8, "LittleEndian", "Unsigned", 2, 0, Plain),
        Signal(<<83, 119>>, 8, 8, "LittleEndian", "Unsigned", 2, 0, Multiplexor)>>]>>,
   value_types |-> <<>>,
   extended_multiplex |-> {768}]

\* dbcs[bus_idx + 1]: the DBCs of bus bus_idx, in the order of the arguments
dbcs == << <<DbcMux, DbcPlain>>, <<DbcOther>> >>

\* dbc_map[bus_idx].get(&msg_id) and dbc_messages_maps[bus_idx].get(&msg_id):
\* the last insertion for msg_id wins.  <<0, 0>> stands for None.
MessageIndex(bus_idx, msg_id) ==
  LET bus_dbcs == dbcs[bus_idx + 1]
      found == {e \in {<<i, j>> : i \in 1..Len(bus_dbcs), j \in 1..4} :
                  /\ e[2] <= Len(bus_dbcs[e[1]].messages)
                  /\ bus_dbcs[e[1]].messages[e[2]].message_id = msg_id}
  IN IF found = {} THEN <<0, 0>>
     ELSE CHOOSE e \in found :
            \A o \in found : o[1] < e[1] \/ (o[1] = e[1] /\ o[2] <= e[2])

\* can_dbc: DBC::message_multiplexor_switch(message_id)
message_multiplexor_switch(dbc, message_id) ==
  LET ms == {j \in 1..Len(dbc.messages) : dbc.messages[j].message_id = message_id}
      message == dbc.messages[CHOOSE j \in ms : \A o \in ms : j <= o]
      sw == {i \in 1..Len(message.signals) :
               message.signals[i].multiplexer_indicator.ind = "Multiplexor"}
  IN IF message_id \in dbc.extended_multiplex THEN [ok |-> FALSE, some |-> FALSE]
     ELSE IF ms = {} \/ sw = {} THEN [ok |-> TRUE, some |-> FALSE]
     ELSE [ok |-> TRUE, some |-> TRUE,
           signal |-> message.signals[CHOOSE i \in sw : \A o \in sw : i <= o]]

\* can_dbc: DBC::extended_value_type_for_signal(message_id, signal_name);
\* "none" stands for None
extended_value_type_for_signal(dbc, message_id, signal_name) ==
  LET es == {i \in 1..Len(dbc.value_types) :
               /\ dbc.value_types[i].message_id = message_id
               /\ dbc.value_types[i].signal_name = signal_name}
  IN IF es = {} THEN "none"
     ELSE dbc.value_types[CHOOSE i \in es : \A o \in es : i <= o]
            .signal_extended_value_type

\* signal_bus_map: created empty and never written to
signal_bus_map == [n \in {} |-> 0]

\* is_float of the signal loop, only the DBC that holds the message asked
IsFloatOwnDbc(bus_idx, message_id, signal_name) ==
  extended_value_type_for_signal(
    dbcs[bus_idx + 1][MessageIndex(bus_idx, message_id)[1]], message_id,
    signal_name) \notin {"none", "SignedOrUnsignedInteger"}

\* is_float of the signal loop
IsFloat(bus_idx, message_id, signal_name) ==
  \E i \in 1..Len(dbcs[bus_idx + 1]) :
    extended_value_type_for_signal(dbcs[bus_idx + 1][i], message_id, signal_name)
      \notin {"none", "SignedOrUnsignedInteger"}

\* store_as_float, the offset left out
StoreAsFloatFactorOnly(is_float, factor, offset) ==
  is_float \/ HasFract(factor)

\* store_as_float
StoreAsFloat(is_float, factor, offset) ==
  is_float \/ HasFract(factor) \/ HasFract(offset)

\* The arm of the match on multiplexer_indicator() calls process_signal;
\* every muxed signal taken whatever the switch says
SelectedAnyMux(signal, current_mux_value) ==
  signal.multiplexer_indicator.ind \in {"Plain", "Multiplexor", "MultiplexedSignal"}

\* The arm of the match on multiplexer_indicator() calls process_signal
Selected(signal, current_mux_value) ==
  \/ signal.multiplexer_indicator.ind \in {"Plain", "Multiplexor"}
  \/ /\ signal.multiplexer_indicator.ind = "MultiplexedSignal"
     /\ signal.multiplexer_indicator.mux_idx = current_mux_value

(***************************************************************************)
(* The message loop of process_file over the index above, then the sort    *)
(* and the write to the child process.                                     *)
(***************************************************************************)
\* CanMessage
CanMessage(timestamp, arbitration_id, msg_data, channel) ==
  [timestamp |-> timestamp, arbitration_id |-> arbitration_id,
   data |-> msg_data, channel |-> channel]

\* What the signal loop leaves: the store, whether a push panicked, and the
\* points pushed
LoopResult(d, panic, points) == [data |-> d, panic |-> panic, points |-> points]

\* The point a call of process_signal pushed, if it pushed one
PointOf(r, name, bus_idx, msg, i, msg_timestamp) ==
  IF r.pushed
  THEN <<[name |-> name, bus_idx |-> bus_idx, message_id |-> msg.arbitration_id,
          signal |-> i, kind |-> r.kind, timestamp |-> msg_timestamp]>>
  ELSE <<>>

\* The points of signal i before those of the signals after it
WithPoints(points, rest) ==
  LoopResult(rest.data, rest.panic, points \o rest.points)

\* 'signal_loop from signal i on
RECURSIVE SignalLoop(_, _, _, _, _, _, _, _)
\* 'signal_loop after signal i, which was skipped or for which process_signal
\* gave r
AfterSignal(d, msg, bus_idx, signals, i, current_mux_value, msg_timestamp, checks, skip, r) ==
  IF skip
  THEN SignalLoop(d, msg, bus_idx, signals, i + 1, current_mux_value,
                  msg_timestamp, checks)
  ELSE IF r.panic THEN LoopResult(d, TRUE, <<>>)
  ELSE WithPoints(PointOf(r, signals[i].name, bus_idx, msg, i, msg_timestamp),
                  SignalLoop(r.data, msg, bus_idx, signals, i + 1,
                             current_mux_value, msg_timestamp, checks))

SignalLoop(d, msg, bus_idx, signals, i, current_mux_value, msg_timestamp, checks) ==
  IF i > Len(signals) THEN LoopResult(d, FALSE, <<>>)
  ELSE
    LET signal == signals[i]
        other_bus == /\ signal.name \in DOMAIN signal_bus_map
                     /\ bus_idx # signal_bus_map[signal.name]
        is_float == IsFloat(bus_idx, msg.arbitration_id, signal.name)
    IN AfterSignal(d, msg, bus_idx, signals, i, current_mux_value,
                   msg_timestamp, checks,
                   other_bus \/ is_float \/ ~Selected(signal, current_mux_value),
                   process_signal(d, msg.data, signal.start_bit,
                                  signal.signal_size,
                                  signal.byte_order = "BigEndian",
                                  signal.value_type = "Signed",
                                  StoreAsFloat(is_float, signal.factor, signal.offset),
                                  signal.factor, signal.offset, signal.name,
                                  msg_timestamp, checks))

\* What one pass of 'message_loop leaves
BodyResult(outcome, first, d, points, current_mux_value) ==
  [outcome |-> outcome, first_timestamp |-> first, data |-> d,
   points |-> points, current_mux_value |-> current_mux_value]

\* The signal loop has run
Decoded(first, current_mux_value, loop) ==
  BodyResult(IF loop.panic THEN "panic" ELSE "decoded", first, loop.data,
             loop.points, current_mux_value)

\* The body of 'message_loop from the switch on: mux is the raw value of the
\* switch (Some(0) when the message has none)
FromSwitch(d, first, msg, msg_timestamp, dbc_msg, mux, checks) ==
  IF ~mux.some THEN BodyResult("no switch", first, d, <<>>, Zero64)
  ELSE Decoded(first, mux.value,
               SignalLoop(d, msg, msg.channel, dbc_msg.signals, 1, mux.value,
                          msg_timestamp, checks))

\* The body of 'message_loop for one frame
MessageLoopBody(d, first, msg, checks) ==
  LET bus_idx == msg.channel
      msg_id == msg.arbitration_id
      first_after == IF first = F64_MAX THEN msg.timestamp ELSE first
      at == MessageIndex(bus_idx, msg_id)
      dbc == dbcs[bus_idx + 1][at[1]]
      mux_signal == message_multiplexor_switch(dbc, msg_id)
  IN IF bus_idx >= Len(dbcs) THEN BodyResult("panic", first, d, <<>>, Zero64)
     ELSE IF at = <<0, 0>>
     THEN BodyResult("no message", first_after, d, <<>>, Zero64)
     ELSE IF ~mux_signal.ok
     THEN BodyResult("no switch", first_after, d, <<>>, Zero64)
     ELSE FromSwitch(d, first_after, msg, msg.timestamp - first_after,
                     dbc.messages[at[2]],
                     IF mux_signal.some
                     THEN extract_signal_raw(
                            msg.data, mux_signal.signal.start_bit,
                            mux_signal.signal.signal_size,
                            mux_signal.signal.byte_order = "BigEndian")
                     ELSE Some(Zero64),
                     checks)

MaxFrames == 2

\* The timestamps of the frames (nanoseconds)
FrameTimes == {10, 20}

\* The frames a file may hold: on message 0x100 switch 1, switch 2, switch 1
\* with the data cut after the first byte, and no data at all; message 0x200
\* on bus 0 (two payloads) and on bus 1; message 0x300 on bus 1; an id no DBC has; a
\* channel no DBC was given for; message 0x400 on bus 1 with one byte of data
FileFrames ==
  {CanMessage(t, f[1], f[2], f[3]) : t \in FrameTimes,
     f \in {<<256, <<17, 5>>, 0>>, <<256, <<34, 133>>, 0>>,
            <<256, <<17>>, 0>>, <<256, <<>>, 0>>,
            <<512, <<7, 200>>, 0>>, <<512, <<255, 1>>, 0>>,
            <<512, <<100, 9>>, 1>>,
            <<768, <<1>>, 1>>, <<2047, <<1>>, 0>>, <<256, <<17, 5>>, 2>>,
            <<1024, <<1>>, 1>>}}

FileInit ==
  /\ StoreInit
  /\ SigIdle
  /\ ReaderIdle
  /\ FileIdle
  /\ MainIdle
  /\ overflow_checks \in BOOLEAN

\* One iteration of 'message_loop
ProcessFrame ==
  /\ phase = "build"
  /\ Len(frames) < MaxFrames
  /\ \E msg \in FileFrames :
       \E r \in {MessageLoopBody(data, first_timestamp, msg, overflow_checks)} :
          /\ data' = r.data
          /\ first_timestamp' = r.first_timestamp
          /\ panicked' = (r.outcome = "panic")
          /\ phase' = IF r.outcome = "panic" THEN "panic" ELSE "build"
          /\ frames' = Append(frames, [msg |-> msg, outcome |-> r.outcome,
                                       current_mux_value |-> r.current_mux_value])
          /\ contributions' =
               contributions \o [i \in 1..Len(r.points) |->
                                   r.points[i] @@ [frame |-> Len(frames) + 1]]
          /\ op' = [name |-> "frame"]
  /\ UNCHANGED <<stream, loaded, pushed>>

\* A name order of the store's map
RECURSIVE KeyOrder(_)
KeyOrder(keys) ==
  IF keys = {} THEN <<>>
  ELSE LET k == CHOOSE x \in keys : TRUE IN <<k>> \o KeyOrder(keys \ {k})

\* The end of the file: signal_count, write_to_stream to the child.  The
\* map is walked in one order here; SpecStore walks it in every order.
FinishFile ==
  /\ phase = "build"
  /\ \E r \in {write_to_stream(data, KeyOrder(DOMAIN data))} :
       /\ data' = r.data
       /\ stream' = r.bytes
  /\ phase' = "written"
  /\ op' = [name |-> "write", signal_count |-> signal_count(data)]
  /\ UNCHANGED <<panicked, loaded, pushed, first_timestamp, frames, contributions>>

FileNext ==
  \/ ProcessFrame /\ UNCHANGED <<sig_vars, overflow_checks, reader_vars, main_vars>>
  \/ FinishFile /\ UNCHANGED <<sig_vars, overflow_checks, reader_vars, main_vars>>
  \/ StoreLoad /\ UNCHANGED <<sig_vars, overflow_checks, file_vars, reader_vars, main_vars>>

SpecFile == FileInit /\ [][FileNext]_vars

(***************************************************************************)
(* The file loop of main: process_file on each .blf file of the folder,    *)
(* one after the other, in one process.                                    *)
(***************************************************************************)
MaxFiles == 2

\* A file BlfReader::new opens ("blf"), and one it returns an error for (it
\* cannot be opened, or does not start with LOGG)
FileStates == {"blf", "unreadable"}

MainInit ==
  /\ \E n \in 1..MaxFiles : entries \in [1..n -> FileStates]
  /\ data = NewStore
  /\ panicked = FALSE
  /\ stream = <<>>
  /\ loaded = [ok |-> FALSE, signals |-> <<>>]
  /\ phase = "idle"
  /\ pushed = NewStore
  /\ op = NoOp
  /\ SigIdle
  /\ FileIdle
  /\ ReaderIdle
  /\ overflow_checks \in BOOLEAN

\* main calls process_file on the next entry: BlfReader::new, and on Ok
\* DataStore::new and first_timestamp = f64::MAX
OpenFile ==
  /\ phase \in {"idle", "loaded"}
  /\ entries # <<>>
  /\ entries' = Tail(entries)
  /\ phase' = IF Head(entries) = "blf" THEN "build" ELSE "idle"
  /\ data' = NewStore
  /\ stream' = <<>>
  /\ loaded' = [ok |-> FALSE, signals |-> <<>>]
  /\ first_timestamp' = F64_MAX
  /\ frames' = <<>>
  /\ contributions' = <<>>
  /\ op' = [name |-> "process_file", file |-> Head(entries)]
  /\ UNCHANGED <<panicked, pushed>>

\* The child process cannot be spawned, or the pipe to it breaks:
\* .expect("Failed to spawn python process"), write_to_stream(stdin).unwrap()
SinkError ==
  /\ phase = "build"
  /\ panicked' = TRUE
  /\ phase' = "panic"
  /\ op' = [name |-> "sink error"]
  /\ UNCHANGED <<data, stream, loaded, pushed, first_timestamp, frames,
                 contributions, entries>>

MainNext ==
  \/ OpenFile /\ UNCHANGED <<sig_vars, overflow_checks, reader_vars>>
  \/ SinkError /\ UNCHANGED <<sig_vars, overflow_checks, reader_vars>>
  \/ ProcessFrame /\ UNCHANGED <<sig_vars, overflow_checks, reader_vars, main_vars>>
  \/ FinishFile /\ UNCHANGED <<sig_vars, overflow_checks, reader_vars, main_vars>>
  \/ StoreLoad /\ UNCHANGED <<sig_vars, overflow_checks, file_vars, reader_vars, main_vars>>

SpecMain == MainInit /\ [][MainNext]_vars

(***************************************************************************)
(* BlfReader: parse_container_data over the uncompressed payloads of the   *)
(* LogContainers of a file, byte for byte.                                 *)
(***************************************************************************)
CAN_MESSAGE == 1

CAN_MESSAGE2 == 86

CAN_ERROR_EXT == 73

TIME_TEN_MICS == 1

\* TIME_TEN_MICS_FACTOR, in nanoseconds
TIME_TEN_MICS_FACTOR == 10000

\* TIME_ONE_NANS_FACTOR, in nanoseconds
TIME_ONE_NANS_FACTOR == 1

\* b"LOBJ"
LOBJ == <<76, 79, 66, 74>>

\* &data[a..b]
Slice(bytes, a, b) == SubSeq(bytes, a + 1, b)

\* find_pattern(data, pattern)
find_pattern(bytes, pattern) ==
  LET hits == {i \in 0..(Len(bytes) - Len(pattern)) :
                 Slice(bytes, i, i + Len(pattern)) = pattern}
  IN IF hits = {} THEN [some |-> FALSE, value |-> 0]
     ELSE [some |-> TRUE, value |-> CHOOSE i \in hits : \A o \in hits : i <= o]

\* can_id & 0x1FFFFFFF, from the four bytes of can_id
ArbitrationId(b) ==
  b[1] + 256 * b[2] + 65536 * b[3] + 16777216 * (b[4] % 32)

\* if channel > 0 { (channel - 1) as u8 } else { 0 }
ChannelOf(channel) == IF channel > 0 THEN (channel - 1) % 256 ELSE 0

\* parse_message_by_type(obj_type, data, timestamp): <<>> for Ok(None),
\* <<msg>> for Ok(Some(msg))
parse_message_by_type(obj_type, bytes, timestamp) ==
  IF obj_type \in {CAN_MESSAGE, CAN_MESSAGE2}
  THEN IF Len(bytes) < 16 THEN <<>>
       ELSE <<[timestamp |-> timestamp,
               arbitration_id |-> ArbitrationId(Slice(bytes, 4, 8)),
               is_extended_id |-> bytes[8] >= 128,
               is_remote_frame |-> bytes[3] >= 128,
               is_rx |-> bytes[3] % 2 = 0,
               is_error_frame |-> FALSE,
               dlc |-> bytes[4],
               data |-> LET data_end == IF 8 + bytes[4] < 16 THEN 8 + bytes[4]
                                        ELSE 16
                        IN Slice(bytes, 8, data_end),
               channel |-> ChannelOf(U16FromBytes(Slice(bytes, 0, 2)))]>>
  ELSE IF obj_type = CAN_ERROR_EXT
  THEN IF Len(bytes) < 26 THEN <<>>
       ELSE <<[timestamp |-> timestamp,
               arbitration_id |-> ArbitrationId(Slice(bytes, 12, 16)),
               is_extended_id |-> bytes[16] >= 128,
               is_remote_frame |-> FALSE,
               is_rx |-> TRUE,
               is_error_frame |-> TRUE,
               dlc |-> bytes[6],
               data |-> LET data_end == IF 26 + bytes[6] < Len(bytes)
                                        THEN 26 + bytes[6] ELSE Len(bytes)
                        IN IF 26 < Len(bytes) THEN Slice(bytes, 26, data_end)
                           ELSE <<>>,
               channel |-> ChannelOf(U16FromBytes(Slice(bytes, 0, 2)))]>>
  ELSE <<>>

\* (ts as f64 * factor) + self.start_timestamp, from the extended header
\* at pos
HeaderTimestamp(full_data, pos, start_timestamp) ==
  LET flags == U32FromBytes(Slice(full_data, pos, pos + 4))
      ts == I64ToInt(FromLeBytes(Slice(full_data, pos + 8, pos + 16)))
  IN ts * (IF flags = TIME_TEN_MICS THEN TIME_TEN_MICS_FACTOR
           ELSE TIME_ONE_NANS_FACTOR)
       + start_timestamp

\* How one pass of the while loop ends
Break == [exit |-> "break", pos |-> 0, messages |-> <<>>]

SlicePanic == [exit |-> "panic", pos |-> 0, messages |-> <<>>]

Continue(pos, messages) == [exit |-> "continue", pos |-> pos, messages |-> messages]

\* The pass of the while loop from `pos = lobj_pos` on
AtObject(full_data, pos, start_timestamp) ==
  LET max_pos == Len(full_data)
      header_version == U16FromBytes(Slice(full_data, pos + 6, pos + 8))
      obj_size == U32FromBytes(Slice(full_data, pos + 8, pos + 12))
      obj_type == U32FromBytes(Slice(full_data, pos + 12, pos + 16))
      next_pos == pos + obj_size
  IN IF pos + 16 > max_pos THEN Break
     ELSE IF Slice(full_data, pos, pos + 4) # LOBJ THEN Continue(pos + 1, <<>>)
     ELSE IF next_pos > max_pos THEN Break
     ELSE IF header_version \notin {1, 2} THEN Continue(next_pos, <<>>)
     ELSE IF pos + 32 > max_pos THEN Break
     ELSE IF pos + 32 > next_pos THEN SlicePanic
     ELSE Continue(next_pos,
                   parse_message_by_type(
                     obj_type, Slice(full_data, pos + 32, next_pos),
                     HeaderTimestamp(full_data, pos + 16, start_timestamp)))

\* One pass of the while loop
LoopPass(full_data, pos, start_timestamp) ==
  LET max_pos == Len(full_data)
      window_end == IF pos + 8 < max_pos THEN pos + 8 ELSE max_pos
      found == find_pattern(Slice(full_data, pos, window_end), LOBJ)
  IN IF found.some THEN AtObject(full_data, pos + found.value, start_timestamp)
     ELSE IF pos + 8 > max_pos THEN Break
     ELSE Continue(pos + 1, <<>>)

\* What the while loop leaves: self.pos, the messages, and whether it
\* panicked or never ends (a pass that does not move pos)
LoopEnd(self_pos_, messages, exit) ==
  [pos |-> self_pos_, messages |-> messages, exit |-> exit]

\* The while loop from pos on
RECURSIVE WhileLoop(_, _, _, _, _)
\* The while loop after a pass from pos
AfterPass(full_data, pos, messages, start_timestamp, pass) ==
  IF pass.exit = "break" THEN LoopEnd(pos, messages, "done")
  ELSE IF pass.exit = "panic" THEN LoopEnd(pos, messages, "panic")
  ELSE IF pass.pos = pos THEN LoopEnd(pos, messages, "diverges")
  ELSE WhileLoop(full_data, pass.pos, pos, messages \o pass.messages,
                 start_timestamp)

WhileLoop(full_data, pos, self_pos_, messages, start_timestamp) ==
  IF pos + 16 > Len(full_data) THEN LoopEnd(self_pos_, messages, "done")
  ELSE AfterPass(full_data, pos, messages, start_timestamp,
                 LoopPass(full_data, pos, start_timestamp))

\* The end of parse_container_data: the tail is cut at self.pos
SaveTail(full_data, loop) ==
  IF loop.exit = "done" /\ loop.pos > Len(full_data)
  THEN [messages |-> <<>>, tail |-> <<>>, pos |-> loop.pos, exit |-> "panic"]
  ELSE [messages |-> loop.messages,
        tail |-> IF loop.exit = "done"
                 THEN Slice(full_data, loop.pos, Len(full_data)) ELSE <<>>,
        pos |-> loop.pos, exit |-> loop.exit]

\* parse_container_data(data) on a reader with that tail and pos
parse_container_data(self_tail_, self_pos_, start_timestamp, bytes) ==
  SaveTail(self_tail_ \o bytes,
           WhileLoop(self_tail_ \o bytes, 0, self_pos_, <<>>, start_timestamp))

(***************************************************************************)
(* A file whose inner objects lie over two LogContainers, one object cut   *)
(* between them; parse_container_data is called on each payload in turn.   *)
(***************************************************************************)
MaxObjects == 2

\* The base header of an inner object (header_size 32)
ObjectHeader(header_version, obj_size, obj_type) ==
  LOBJ \o U16Bytes(32) \o U16Bytes(header_version) \o U32Bytes(obj_size)
    \o U32Bytes(obj_type)

\* The 16 bytes after the base header: flags, client index, object version,
\* timestamp
ExtendedHeader(flags, ts) ==
  U32Bytes(flags) \o U16Bytes(0) \o U16Bytes(0) \o LeBytes(IntTo64(ts))

\* The inner objects a file may hold, with their obj_size:
\*   "can":   CAN_MESSAGE, version 1, 1000 ns, channel 1, id 0x100, dlc 2
\*   "error": CAN_ERROR_EXT, version 2, 3 * 10 us, laid out as channel 2,
\*            length, flags, ecc, position, dlc 4, frame_length, id 0x200
\*            extended, flags_ext, data
\*   "other": an object type the reader does not decode, 2 bytes of payload
\*            and 2 bytes of padding after it
\*   "runt":  a base header of version 1 that declares obj_size 16, the
\*            length of the base header alone
ObjectBytes(kind) ==
  CASE kind = "can" ->
         ObjectHeader(1, 48, CAN_MESSAGE) \o ExtendedHeader(2, 1000)
           \o U16Bytes(1) \o <<0, 2>> \o <<0, 1, 0, 0>>
           \o <<17, 5, 0, 0, 0, 0, 0, 0>>
    [] kind = "error" ->
         ObjectHeader(2, 64, CAN_ERROR_EXT) \o ExtendedHeader(TIME_TEN_MICS, 3)
           \o U16Bytes(2) \o U16Bytes(0) \o U32Bytes(0) \o <<0, 0, 4, 0>>
           \o U32Bytes(0) \o <<0, 2, 0, 128>> \o U16Bytes(0) \o <<0, 0>>
           \o <<1, 2, 3, 4, 0, 0, 0, 0>>
    [] kind = "other" ->
         ObjectHeader(1, 34, 6) \o ExtendedHeader(2, 2000) \o <<9, 9>>
           \o <<0, 0>>
    [] kind = "runt" -> ObjectHeader(1, 16, CAN_MESSAGE)

ObjectKinds == {"can", "error", "other", "runt"}

\* obj_size of the object
ObjectSize(kind) == U32FromBytes(Slice(ObjectBytes(kind), 8, 12))

\* The bytes of a sequence of objects
ObjectsBytes(kinds) == Concat([i \in 1..Len(kinds) |-> ObjectBytes(kinds[i])])

\* The objects fill two payloads; object number cut is cut k bytes in
TwoPayloads(kinds, cut, k) ==
  LET bytes == ObjectsBytes(kinds)
      at == Len(ObjectsBytes(SubSeq(kinds, 1, cut - 1))) + k
  IN <<SubSeq(bytes, 1, at), SubSeq(bytes, at + 1, Len(bytes))>>

ReaderInit ==
  /\ \E n \in 1..MaxObjects :
       \E kinds \in [1..n -> ObjectKinds] :
         \E cut \in 1..n :
           \E k \in 1..(ObjectSize(kinds[cut]) - 1) :
             /\ input = [objects |-> kinds, cut |-> cut, k |-> k,
                         payloads |-> TwoPayloads(kinds, cut, k),
                         start_timestamp |-> 5000]
             /\ containers = TwoPayloads(kinds, cut, k)
  /\ self_tail = <<>>
  /\ self_pos = 0
  /\ all_messages = <<>>
  /\ StoreInit
  /\ SigIdle
  /\ FileIdle
  /\ MainIdle
  /\ overflow_checks = TRUE

\* read_messages, for one LogContainer: parse_container_data on its payload
\* and all_messages.extend(messages)
ParseContainer ==
  /\ phase = "build"
  /\ containers # <<>>
  /\ \E r \in {parse_container_data(self_tail, self_pos, input.start_timestamp,
                                    Head(containers))} :
       /\ self_tail' = r.tail
       /\ self_pos' = r.pos
       /\ all_messages' = IF r.exit = "done" THEN all_messages \o r.messages
                          ELSE all_messages
       /\ panicked' = (r.exit = "panic")
       /\ phase' = IF r.exit = "done" THEN "build" ELSE r.exit
  /\ containers' = Tail(containers)
  /\ op' = [name |-> "parse_container_data"]
  /\ UNCHANGED <<input, data, stream, loaded, pushed>>

ReaderNext ==
  ParseContainer /\ UNCHANGED <<sig_vars, overflow_checks, file_vars, main_vars>>

SpecReader == ReaderInit /\ [][ReaderNext]_vars

(***************************************************************************)
(* read_messages: the outer objects of the file, one per pass of its loop. *)
(* A zlib stream is modelled for deflate "stored" blocks: the two header   *)
(* bytes, one final stored block (1, LEN, NLEN, the bytes) and the         *)
(* Adler-32 of the bytes, big-endian.                                      *)
(***************************************************************************)
LOG_CONTAINER == 10

NO_COMPRESSION == 0

ZLIB_DEFLATE == 2

\* The modulus of Adler-32
ADLER_MOD == 65521

\* The sum of weight * byte over bytes lo..hi, where the weight of byte i
\* is 1 (plain sum) or Len(bytes) - i + 1 (the sum of the running sums)
RECURSIVE ByteSum(_, _, _, _)
ByteSum(bytes, lo, hi, running) ==
  IF lo > hi THEN 0
  ELSE IF lo = hi
  THEN bytes[lo] * (IF running THEN Len(bytes) - lo + 1 ELSE 1)
  ELSE ByteSum(bytes, lo, (lo + hi) \div 2, running)
         + ByteSum(bytes, ((lo + hi) \div 2) + 1, hi, running)

\* Adler-32 of the bytes (fewer than 128 of them): the sum a, the sum b of
\* the running values of a
AdlerA(bytes) == (1 + ByteSum(bytes, 1, Len(bytes), FALSE)) % ADLER_MOD

AdlerB(bytes) == (Len(bytes) + ByteSum(bytes, 1, Len(bytes), TRUE)) % ADLER_MOD

\* The four bytes of the checksum that end a zlib stream
AdlerBytes(bytes) ==
  <<AdlerB(bytes) \div 256, AdlerB(bytes) % 256,
    AdlerA(bytes) \div 256, AdlerA(bytes) % 256>>

\* ZlibDecoder::new(container_data).read_to_end(&mut decompressed)
ZlibDecode(bytes) ==
  LET len == U16FromBytes(SubSeq(bytes, 4, 5))
      nlen == U16FromBytes(SubSeq(bytes, 6, 7))
      body == SubSeq(bytes, 8, 7 + len)
  IN IF Len(bytes) < 11 THEN [ok |-> FALSE, bytes |-> <<>>]
     ELSE IF bytes[1] # 120 \/ (256 * bytes[1] + bytes[2]) % 31 # 0
     THEN [ok |-> FALSE, bytes |-> <<>>]
     ELSE IF bytes[3] # 1 \/ len + nlen # 65535 \/ Len(bytes) < 11 + len
     THEN [ok |-> FALSE, bytes |-> <<>>]
     ELSE IF SubSeq(bytes, 8 + len, 11 + len) # AdlerBytes(body)
     THEN [ok |-> FALSE, bytes |-> <<>>]
     ELSE [ok |-> TRUE, bytes |-> body]

\* let decompressed_data = match compression_method { ... }, an unknown
\* method read as if it were NO_COMPRESSION
DecompressAnyMethod(compression_method, container_data) ==
  IF compression_method = ZLIB_DEFLATE THEN ZlibDecode(container_data)
  ELSE [ok |-> TRUE, bytes |-> container_data]

\* let decompressed_data = match compression_method { ... }: not ok stands
\* for the arms that `continue`
Decompress(compression_method, container_data) ==
  IF compression_method = NO_COMPRESSION
  THEN [ok |-> TRUE, bytes |-> container_data]
  ELSE IF compression_method = ZLIB_DEFLATE THEN ZlibDecode(container_data)
  ELSE [ok |-> FALSE, bytes |-> <<>>]

\* What one pass of the loop of read_messages leaves
PassResult(exit, messages, self_tail_, self_pos_) ==
  [exit |-> exit, messages |-> messages, tail |-> self_tail_, pos |-> self_pos_]

\* The pass from the call of parse_container_data on
AfterParse(parsed) ==
  PassResult(IF parsed.exit = "done" THEN "read" ELSE parsed.exit,
             parsed.messages, parsed.tail, parsed.pos)

\* The pass for a LOG_CONTAINER with that obj_data
ReadContainer(self_tail_, self_pos_, start_timestamp, obj_data, decompressed) ==
  IF Len(obj_data) < 16 THEN PassResult("skipped", <<>>, self_tail_, self_pos_)
  ELSE IF ~decompressed.ok THEN PassResult("skipped", <<>>, self_tail_, self_pos_)
  ELSE AfterParse(parse_container_data(self_tail_, self_pos_, start_timestamp,
                                       decompressed.bytes))

\* One pass of the loop of read_messages on the bytes left in the file
ReadObject(self_tail_, self_pos_, start_timestamp, bytes, checks) ==
  LET obj_size == U32FromBytes(Slice(bytes, 8, 12))
      obj_type == U32FromBytes(Slice(bytes, 12, 16))
      padding == obj_size % 4
      obj_data == Slice(bytes, 16, obj_size)
  IN IF Len(bytes) < 16 THEN PassResult("eof", <<>>, self_tail_, self_pos_)
     ELSE IF Slice(bytes, 0, 4) # LOBJ
     THEN PassResult("error", <<>>, self_tail_, self_pos_)
     ELSE IF obj_size < 16
     THEN PassResult(IF checks THEN "panic" ELSE "error", <<>>, self_tail_, self_pos_)
     ELSE IF Len(bytes) < obj_size + padding
     THEN PassResult("error", <<>>, self_tail_, self_pos_)
     ELSE IF obj_type # LOG_CONTAINER
     THEN PassResult("read", <<>>, self_tail_, self_pos_)
     ELSE ReadContainer(self_tail_, self_pos_, start_timestamp, obj_data,
                        IF Len(obj_data) < 16 THEN [ok |-> FALSE, bytes |-> <<>>]
                        ELSE Decompress(U16FromBytes(Slice(obj_data, 0, 2)),
                                        Slice(obj_data, 16, Len(obj_data))))

\* The loop of read_messages from the outer object i of the file on
RECURSIVE ReadLoop(_, _, _, _, _, _, _)
\* The loop of read_messages after the pass on the outer object i
AfterObject(self_tail_, self_pos_, start_timestamp, objects, i, messages, checks, pass) ==
  IF pass.exit \in {"read", "skipped"}
  THEN ReadLoop(pass.tail, pass.pos, start_timestamp, objects, i + 1,
                messages \o pass.messages, checks)
  ELSE IF pass.exit = "eof" THEN PassResult("done", messages, self_tail_, self_pos_)
  ELSE PassResult(pass.exit, <<>>, self_tail_, self_pos_)

ReadLoop(self_tail_, self_pos_, start_timestamp, objects, i, messages, checks) ==
  AfterObject(self_tail_, self_pos_, start_timestamp, objects, i, messages, checks,
              ReadObject(self_tail_, self_pos_, start_timestamp,
                         Concat(SubSeq(objects, i, Len(objects))), checks))

\* read_messages on a freshly opened file with these outer objects
read_messages(start_timestamp, objects, checks) ==
  ReadLoop(<<>>, 0, start_timestamp, objects, 1, <<>>, checks)

(***************************************************************************)
(* A file of up to MaxOuter outer objects, read by read_messages.          *)
(***************************************************************************)
MaxOuter == 3

\* An outer object: base header, body, and obj_size % 4 bytes after it
OuterObject(obj_type, body) ==
  LOBJ \o U16Bytes(16) \o U16Bytes(1) \o U32Bytes(16 + Len(body))
    \o U32Bytes(obj_type) \o body \o [i \in 1..((16 + Len(body)) % 4) |-> 0]

\* A LogContainer: compression method, uncompressed size, the stored bytes
Container(compression_method, uncompressed_size, stored) ==
  OuterObject(LOG_CONTAINER,
              U16Bytes(compression_method) \o <<0, 0, 0, 0, 0, 0>>
                \o U32Bytes(uncompressed_size) \o <<0, 0, 0, 0>> \o stored)

\* The zlib stream of one stored block that holds the bytes
ZlibStored(bytes) ==
  <<120, 1, 1>> \o U16Bytes(Len(bytes)) \o U16Bytes(65535 - Len(bytes))
    \o bytes \o AdlerBytes(bytes)

\* An inner object with header version 3 that declares that obj_size
BareHeader(obj_size) == ObjectHeader(3, obj_size, CAN_MESSAGE)

\* The outer objects a file may hold:
\*   "plain":   an uncompressed container with one "can" object
\*   "zlib":    a zlib container with one "error" object
\*   "half", "rest": uncompressed containers with the first 20 bytes of a
\*              "can" object and with its other 28 bytes
\*   "method":  a container with compression method 1 around a "can" object
\*   "corrupt": a zlib container whose checksum is wrong
\*   "short":   a container whose body has 8 bytes
\*   "object":  an outer object that is no container
\*   "small":   an uncompressed container with an inner object of version 3
\*              that declares obj_size 8, then a "can" object
\*   "zero":    the same with obj_size 0
OuterBytes(kind) ==
  CASE kind = "plain" -> Container(NO_COMPRESSION, 48, ObjectBytes("can"))
    [] kind = "zlib" ->
         Container(ZLIB_DEFLATE, 64, ZlibStored(ObjectBytes("error")))
    [] kind = "half" ->
         Container(NO_COMPRESSION, 20, SubSeq(ObjectBytes("can"), 1, 20))
    [] kind = "rest" ->
         Container(NO_COMPRESSION, 28, SubSeq(ObjectBytes("can"), 21, 48))
    [] kind = "method" -> Container(1, 48, ObjectBytes("can"))
    [] kind = "corrupt" ->
         Container(ZLIB_DEFLATE, 48,
                   <<120, 1, 1>> \o U16Bytes(48) \o U16Bytes(65487)
                     \o ObjectBytes("can") \o <<0, 0, 0, 0>>)
    [] kind = "short" -> OuterObject(LOG_CONTAINER, <<0, 0, 0, 0, 0, 0, 0, 0>>)
    [] kind = "object" -> OuterObject(CAN_MESSAGE, ObjectBytes("other"))
    [] kind = "small" ->
         Container(NO_COMPRESSION, 64, BareHeader(8) \o ObjectBytes("can"))
    [] kind = "zero" ->
         Container(NO_COMPRESSION, 64, BareHeader(0) \o ObjectBytes("can"))

OuterKinds ==
  {"plain", "zlib", "half", "rest", "method", "corrupt", "short", "object",
   "small", "zero"}

\* The bytes of the file after its header
FileBytes(kinds) == Concat([i \in 1..Len(kinds) |-> OuterBytes(kinds[i])])

OuterInit ==
  /\ \E n \in 0..MaxOuter :
       \E kinds \in [1..n -> OuterKinds] :
         /\ input = [objects |-> kinds, start_timestamp |-> 5000]
         /\ containers = [i \in 1..n |-> OuterBytes(kinds[i])]
  /\ self_tail = <<>>
  /\ self_pos = 0
  /\ all_messages = <<>>
  /\ StoreInit
  /\ SigIdle
  /\ FileIdle
  /\ MainIdle
  /\ overflow_checks \in BOOLEAN

\* One pass of the loop of read_messages
ReadPass ==
  /\ phase = "build"
  /\ \E r \in {ReadObject(self_tail, self_pos, input.start_timestamp,
                          Concat(containers), overflow_checks)} :
       /\ self_tail' = r.tail
       /\ self_pos' = r.pos
       /\ all_messages' = IF r.exit \in {"read", "skipped"}
                          THEN all_messages \o r.messages
                          ELSE IF r.exit = "error" THEN <<>> ELSE all_messages
       /\ panicked' = (r.exit = "panic")
       /\ phase' = CASE r.exit \in {"read", "skipped"} -> "build"
                     [] r.exit = "eof" -> "done"
                     [] OTHER -> r.exit
       /\ op' = [name |-> "read_messages", exit |-> r.exit]
  /\ containers' = IF containers = <<>> THEN <<>> ELSE Tail(containers)
  /\ UNCHANGED <<input, data, stream, loaded, pushed>>

OuterNext ==
  ReadPass /\ UNCHANGED <<sig_vars, overflow_checks, file_vars, main_vars>>

SpecObjects == OuterInit /\ [][OuterNext]_vars

(***************************************************************************)
(* Claims about the store and its stream                                   *)
(***************************************************************************)
\* A series as (kind, sequence of <<timestamp, value>>)
PointPairs(pts) == [i \in 1..Len(pts) |-> <<pts[i].timestamp, pts[i].value>>]

\* The store that the yielded signals reconstruct
LoadedStore ==
  LET names == {loaded.signals[i].name : i \in 1..Len(loaded.signals)}
      yielded(n) == loaded.signals[CHOOSE i \in 1..Len(loaded.signals) :
                                     loaded.signals[i].name = n]
  IN [n \in names |->
        [kind |-> yielded(n).kind,
         points |-> [i \in 1..Len(yielded(n).values) |->
                       <<yielded(n).timestamps[i], yielded(n).values[i]>>]]]

\* The store as the pushes built it
PushedStore ==
  [n \in DOMAIN pushed |->
     [kind |-> pushed[n][1].kind, points |-> PointPairs(pushed[n])]]

\* C3 as stated: serialising the store built by the pushes and parsing the
\* bytes back gives an equivalent store: the same names, each with the same
\* kind and the same ordered sequence of (timestamp, value) points.
C3_RoundTripAsStated ==
  phase = "loaded" => (loaded.ok /\ LoadedStore = PushedStore)

\* C3 as amended: parsing the stream back gives the same names, each once,
\* with the same kind and, in the stable timestamp order write_to_stream left
\* the store in, the same values; a timestamp is the stored one unless it is
\* not greater than the timestamp yielded before it, and then it is that
\* timestamp plus one nanosecond (so a series whose stored timestamps are
\* strictly increasing is reconstructed exactly).
C3_RoundTripAmended ==
  phase = "loaded" =>
    /\ loaded.ok
    /\ Len(loaded.signals) = Cardinality(DOMAIN data)
    /\ DOMAIN LoadedStore = DOMAIN data
    /\ \A n \in DOMAIN data :
         LET got == LoadedStore[n].points
             put == data[n].points
         IN /\ LoadedStore[n].kind = data[n].kind
            /\ Len(got) = Len(put)
            /\ \A i \in 1..Len(put) :
                 /\ got[i][2] = put[i].value
                 /\ got[i][1] = IF i > 1 /\ put[i].timestamp <= got[i - 1][1]
                                THEN got[i - 1][1] + 1
                                ELSE put[i].timestamp
            /\ (\A i \in 2..Len(put) : put[i - 1].timestamp < put[i].timestamp)
                 => got = PointPairs(put)

\* C3's case: a stream was read back that holds a series pushed out of
\* timestamp order and with two points of one timestamp.
C3_Witness ==
  /\ phase = "loaded"
  /\ \E n \in DOMAIN pushed :
       /\ \E i, j \in 1..Len(pushed[n]) :
            i < j /\ pushed[n][i].timestamp > pushed[n][j].timestamp
       /\ \E i, j \in 1..Len(pushed[n]) :
            i < j /\ pushed[n][i].timestamp = pushed[n][j].timestamp

\* The points of a series that carry timestamp t, in order
AtTime(pts, t) == SelectSeq(pts, LAMBDA p : p.timestamp = t)

\* C4: after write_to_stream every series is the stable sort by timestamp of
\* the points pushed to it: as many points, timestamps non-decreasing, and
\* the points of any one timestamp in their push order (hence a permutation).
C4_StableSort ==
  phase \in {"written", "loaded"} =>
    /\ DOMAIN data = DOMAIN pushed
    /\ \A n \in DOMAIN data :
         LET out == data[n].points
             inp == pushed[n]
         IN /\ Len(out) = Len(inp)
            /\ \A i, j \in 1..Len(out) :
                 i < j => out[i].timestamp <= out[j].timestamp
            /\ \A p \in {inp[i] : i \in 1..Len(inp)} :
                 Cardinality({i \in 1..Len(inp) : inp[i] = p})
                   = Cardinality({i \in 1..Len(out) : out[i] = p})
            /\ \A t \in StoreTimes : AtTime(out, t) = AtTime(inp, t)

\* C4's case: a written series that was pushed out of order and holds two
\* different points of one timestamp.
C4_Witness ==
  /\ phase = "written"
  /\ \E n \in DOMAIN pushed :
       /\ \E i, j \in 1..Len(pushed[n]) :
            i < j /\ pushed[n][i].timestamp > pushed[n][j].timestamp
       /\ \E i, j \in 1..Len(pushed[n]) :
            /\ i < j
            /\ pushed[n][i].timestamp = pushed[n][j].timestamp
            /\ pushed[n][i].value # pushed[n][j].value

\* Every point of a series has the kind of the series
KindMonomorphic ==
  \A n \in DOMAIN data :
    \A i \in 1..Len(data[n].points) : data[n].points[i].kind = data[n].kind

\* A step never changes the kind of a series; the first push for a name
\* sets it
KindFixed ==
  /\ \A n \in DOMAIN data : n \in DOMAIN data' /\ data'[n].kind = data[n].kind
  /\ (op'.name = "push" /\ op'.key \notin DOMAIN data)
       => (op'.key \in DOMAIN data' /\ data'[op'.key].kind = op'.kind)

\* A push of another kind than the series' panics and appends nothing
MismatchFailsFast ==
  (op'.name = "push" /\ op'.key \in DOMAIN data /\ data[op'.key].kind # op'.kind)
    => (panicked' /\ data' = data)

\* C5: a series' kind is fixed by the first push for its name, every point of
\* a series has that kind, and a push of another kind panics without
\* appending a point.
C5_KindMonomorphism ==
  []KindMonomorphic /\ [][KindFixed /\ MismatchFailsFast]_vars

\* C5's case: a push whose kind differs from the kind of its series.
C5_Witness ==
  /\ op.name = "push"
  /\ op.key \in DOMAIN data
  /\ data[op.key].kind # op.kind
  /\ Len(data[op.key].points) >= 1
  /\ panicked

(***************************************************************************)
(* Claims about bit extraction and sign extension                          *)
(***************************************************************************)
\* C6 as stated: for the frame [0x12, 0x34, 0, 0, 0, 0, 0, 0] with
\* start_bit = 7, bit_count = 16, unsigned, BigEndian, extract_signal_raw
\* returns the raw value 0x1234 (start_bit is the most significant bit and
\* the bits are read MSB-first across bytes).
C6_MotorolaAsStated ==
  (/\ res # NoOp
   /\ sig.data = FrameS2 /\ sig.start_bit = 7 /\ sig.bit_count = 16
   /\ sig.is_big_endian /\ ~sig.is_signed)
    => (res.raw.some /\ res.raw.value = IntTo64(4660))

\* C7: a value below 2^bit_count packed LSB-first at (start_bit, bit_count),
\* bit_count in 1..64, into a zeroed buffer of ceil((start_bit + bit_count)/8)
\* bytes is what extract_signal_raw returns for LittleEndian.
C7_LittleEndianRoundTrip ==
  (/\ res # NoOp
   /\ sig.name = "packed" /\ ~sig.is_big_endian
   /\ sig.bit_count >= 1 /\ sig.bit_count <= 64)
    => (res.raw.some /\ res.raw.value = sig.value)

\* C7's case: a 64-bit value with its top bit set, packed at a start bit that
\* is not a byte boundary, was extracted.
C7_Witness ==
  /\ res # NoOp
  /\ sig.name = "packed" /\ ~sig.is_big_endian
  /\ sig.bit_count = 64 /\ sig.start_bit % 8 = 3
  /\ sig.value[64] = 1 /\ sig.value[1] = 0
  /\ res.raw.some

\* C8: for a signed signal of width w < 64 the i64 computed before scaling is
\* the two's complement reading of the w-bit raw value: its low w bits are
\* the raw value's and every bit above repeats bit w-1 (for w <= 30, as a
\* number: raw - 2^w when bit w-1 is set, else raw; w = 10, raw = 0x3FF gives
\* -1); for w = 64 it is the raw value unchanged.
C8_SignExtension ==
  (res # NoOp /\ sig.is_signed /\ res.raw.some) =>
    LET w == sig.bit_count
        raw == res.raw.value
        sv == res.signed_value
    IN /\ w < 64 => /\ \A i \in 1..w : sv[i] = raw[i]
                    /\ \A i \in (w + 1)..64 : sv[i] = raw[w]
       /\ w <= 30 => /\ FitsInt(sv)
                     /\ I64ToInt(sv) = SumBits(raw, w) - raw[w] * Pow2(w)
       /\ (w = 10 /\ raw = IntTo64(1023)) => sv = IntTo64(-1)
       /\ w = 64 => sv = raw

\* C8's case: the signed 10-bit raw value 0x3FF was converted.
C8_Witness ==
  /\ res # NoOp /\ sig.is_signed /\ res.raw.some
  /\ sig.bit_count = 10
  /\ res.raw.value = IntTo64(1023)
  /\ res.pushed

(***************************************************************************)
(* Claims about the message loop of process_file                           *)
(***************************************************************************)
\* The buses whose DBCs define a signal of that name
DefinedOn(name) ==
  {b \in 0..(Len(dbcs) - 1) :
     \E i \in 1..Len(dbcs[b + 1]) :
       \E j \in 1..Len(dbcs[b + 1][i].messages) :
         \E k \in 1..Len(dbcs[b + 1][i].messages[j].signals) :
           dbcs[b + 1][i].messages[j].signals[k].name = name}

\* The descriptor a pushed point was decoded with
DescriptorOf(c) ==
  LET at == MessageIndex(c.bus_idx, c.message_id)
  IN dbcs[c.bus_idx + 1][at[1]].messages[at[2]].signals[c.signal]

\* C2 (as stated): a point stored under a name that the DBCs of several
\* buses define comes from a frame on the first of these buses.
C2_BusDeduplicationAsStated ==
  \A i \in 1..Len(contributions) :
    \A b \in DefinedOn(contributions[i].name) : contributions[i].bus_idx <= b

\* The frame passed the frame-level skip rules (channel, arbitration id)
Accepted(f) ==
  /\ f.msg.channel < Len(dbcs)
  /\ MessageIndex(f.msg.channel, f.msg.arbitration_id) # <<0, 0>>

\* The muxed signals of the index, as <<bus_idx, message_id, signal>>
MuxedSignals ==
  {m \in {<<b, id, k>> : b \in 0..(Len(dbcs) - 1), id \in {256, 512, 768},
                         k \in 1..4} :
     /\ MessageIndex(m[1], m[2]) # <<0, 0>>
     /\ LET at == MessageIndex(m[1], m[2])
            signals == dbcs[m[1] + 1][at[1]].messages[at[2]].signals
        IN /\ m[3] <= Len(signals)
           /\ signals[m[3]].multiplexer_indicator.ind = "MultiplexedSignal"}

\* The descriptor of a signal of the index
SignalAt(m) ==
  DescriptorOf([bus_idx |-> m[1], message_id |-> m[2], signal |-> m[3]])

\* The frames of the message of m that were accepted and whose switch
\* decoded to the k of m
FramesWithSwitch(m) ==
  {i \in 1..Len(frames) :
     /\ Accepted(frames[i])
     /\ frames[i].msg.channel = m[1]
     /\ frames[i].msg.arbitration_id = m[2]
     /\ frames[i].outcome = "decoded"
     /\ frames[i].current_mux_value = SignalAt(m).multiplexer_indicator.mux_idx}

\* The points the signal m pushed
PointsOf(m) ==
  {i \in 1..Len(contributions) :
     /\ contributions[i].bus_idx = m[1]
     /\ contributions[i].message_id = m[2]
     /\ contributions[i].signal = m[3]}

\* The number of points in the series of that name
SeriesLen(name) ==
  IF name \in DOMAIN data THEN Len(data[name].points) ELSE 0

HoldsStartBit(signal, msg_data) ==
  /\ signal.signal_size \in 1..64
  /\ signal.start_bit < 8 * Len(msg_data)
  /\ signal.byte_order = "BigEndian" => signal.start_bit >= signal.signal_size - 1

KindOfDescriptor(signal) ==
  IF signal.factor % 2 # 0 \/ signal.offset % 2 # 0 THEN "F64"
  ELSE IF signal.value_type = "Signed" THEN "I64" ELSE "U64"

\* C10: every point of a signal is pushed with the kind its descriptor calls
\* for (F64 when factor or offset has a fractional part, else I64 when
\* signed and U64 when unsigned), whatever the frame, and the series it is
\* stored in has that kind.
C10_ScalingPromotion ==
  \A i \in 1..Len(contributions) :
    LET c == contributions[i]
    IN /\ ~IsFloat(c.bus_idx, c.message_id, c.name)
       /\ c.kind = KindOfDescriptor(DescriptorOf(c))
       /\ c.name \in DOMAIN data
       /\ data[c.name].kind = c.kind

\* "H" (factor 0.5, offset 0) was pushed as F64 from two frames with
\* different data, "O" (factor 1, offset 0.5) as F64 and "Sh" as U64.
C10_Witness ==
  /\ \E i, j \in 1..Len(contributions) :
       /\ contributions[i].name = <<72>> /\ contributions[j].name = <<72>>
       /\ contributions[i].kind = "F64" /\ contributions[j].kind = "F64"
       /\ frames[contributions[i].frame].msg.data
            # frames[contributions[j].frame].msg.data
  /\ \E i \in 1..Len(contributions) :
       contributions[i].name = <<79>> /\ contributions[i].kind = "F64"
  /\ \E i \in 1..Len(contributions) :
       contributions[i].name = <<83, 104>> /\ contributions[i].kind = "U64"
  /\ data[<<72>>].kind = "F64" /\ Len(data[<<72>>].points) = 2

(***************************************************************************)
(* Claims about the reader                                                 *)
(***************************************************************************)
\* The frames of one call of parse_container_data on both payloads joined
FramesOfConcatenation ==
  parse_container_data(<<>>, 0, input.start_timestamp,
                       input.payloads[1] \o input.payloads[2]).messages

\* C1 (as stated): once parse_container_data has run on payload 1 and then
\* on payload 2, the frames it yielded are the frames of one run on the
\* concatenation of both payloads, in the same order and multiplicity.
C1_CarryOverAsStated ==
  (containers = <<>> /\ phase = "build" /\ input # <<>>)
    => all_messages = FramesOfConcatenation

\* The inner objects that lie whole in payload 1
ConsumedObjects == SubSeq(input.objects, 1, input.cut - 1)

\* The suffixes of payload 1 that start at the end of the last object that
\* lies whole in it: at its obj_size, or after the padding that follows it
TailsAtLastConsumed ==
  LET payload == input.payloads[1]
      padded == Len(ObjectsBytes(ConsumedObjects))
      padding == IF ConsumedObjects = <<>> THEN 0
                 ELSE Len(ObjectBytes(ConsumedObjects[Len(ConsumedObjects)]))
                        - ObjectSize(ConsumedObjects[Len(ConsumedObjects)])
  IN {SubSeq(payload, from + 1, Len(payload)) : from \in {padded - padding, padded}}

\* C15 (as stated): after parse_container_data has processed payload 1 (the
\* old tail is empty), the new tail is the suffix of the payload that starts
\* at the end of the last fully consumed inner object, so no byte of a
\* consumed object is in the tail.  Stated on the files whose objects the
\* loop consumes whole, those without a "runt".
C15_TailPreservationAsStated ==
  (/\ phase = "build" /\ input # <<>> /\ Len(containers) = 1
   /\ \A i \in 1..Len(input.objects) : input.objects[i] # "runt")
    => self_tail \in TailsAtLastConsumed

\* The fields of an inner object as its struct lays them out, read from the
\* bytes after the 32 header bytes.  CAN_MSG_STRUCT "<HBBL8s": channel,
\* flags, dlc, arbitration_id, data.  CAN_ERROR_EXT_STRUCT
\* "<HHLBBBxLLH2x8s": channel, length, flags, ecc, position, dlc, pad,
\* frame_length, id, flags_ext, pad, data.
FieldsAsLaidOut(kind) ==
  LET body == Slice(ObjectBytes(kind), 32, ObjectSize(kind))
  IN IF kind = "error"
     THEN [channel |-> U16FromBytes(Slice(body, 0, 2)), dlc |-> body[11],
           can_id |-> Slice(body, 16, 20), data |-> Slice(body, 24, 32)]
     ELSE [channel |-> U16FromBytes(Slice(body, 0, 2)), dlc |-> body[4],
           can_id |-> Slice(body, 4, 8), data |-> Slice(body, 8, 16)]

\* The frame m carries the fields of the object it was decoded from: the
\* first min(dlc, 8) bytes of the data field, can_id & 0x1FFFFFFF and
\* max(channel, 1) - 1
FrameAsLaidOut(m, fields) ==
  /\ m.data = SubSeq(fields.data, 1, IF fields.dlc < 8 THEN fields.dlc ELSE 8)
  /\ Len(m.data) <= 8
  /\ m.arbitration_id = ArbitrationId(fields.can_id)
  /\ m.channel = (IF fields.channel > 1 THEN fields.channel ELSE 1) - 1

\* C18 (as stated): every frame the reader yields, from a CAN_MESSAGE or from
\* a CAN_ERROR_EXT object, has as data the first min(dlc, 8) bytes of the
\* object's data field, as arbitration_id can_id & 0x1FFFFFFF and as channel
\* max(channel, 1) - 1.
C18_FrameDataAsStated ==
  \A i \in 1..Len(all_messages) :
    FrameAsLaidOut(all_messages[i],
                   FieldsAsLaidOut(IF all_messages[i].is_error_frame
                                   THEN "error" ELSE "can"))

\* The effective buffer of the next call of parse_container_data
NextBuffer == self_tail \o Head(containers)

\* When the loop of the next call will not run (fewer than 16 bytes), the
\* cursor the previous call left is inside the buffer the tail is cut from
StaleCursorInBuffer ==
  (phase = "build" /\ containers # <<>> /\ Len(NextBuffer) < 16)
    => self_pos <= Len(NextBuffer)

\* C21 (as stated): over the payloads of a file parse_container_data never
\* indexes outside the effective buffer: the cursor self.pos the tail is cut
\* at is within the buffer, and the slice [pos, next_pos) handed to
\* parse_message_by_type has pos <= next_pos, also for an inner object that
\* declares obj_size < 32.  The two slices are the only places where
\* parse_container_data panics.
C21_CursorBoundsAsStated == StaleCursorInBuffer /\ ~panicked

(***************************************************************************)
(* Claims about the frame-level rules of process_file                      *)
(***************************************************************************)
\* C11 (as stated): a frame whose channel is not an index into the
\* configured buses is skipped; processing does not fail on it.
C11_ChannelSkipAsStated ==
  \A i \in 1..Len(frames) :
    frames[i].msg.channel >= Len(dbcs)
      => frames[i].outcome # "panic" /\ ~panicked /\ phase # "panic"

\* The first frame read that passed the channel and arbitration-id rules
FirstAccepted ==
  CHOOSE i \in 1..Len(frames) :
    Accepted(frames[i]) /\ \A j \in 1..(i - 1) : ~Accepted(frames[j])

\* C12 (as stated): every point pushed carries the timestamp of its frame
\* minus the timestamp of the first accepted frame; a frame skipped for its
\* arbitration id does not define the epoch.
C12_TimestampRebasingAsStated ==
  \A i \in 1..Len(contributions) :
    contributions[i].timestamp
      = frames[contributions[i].frame].msg.timestamp
          - frames[FirstAccepted].msg.timestamp

\* C13 (as stated): a failure while one file is processed does not abort
\* the processing of the files after it.
C13_FailureIsolationAsStated == panicked => entries = <<>>

\* raw * factor + offset for the point c, as an integer; the raw value is
\* read from the frame of c as the descriptor of its signal says
ScaledValue(c) ==
  LET s == DescriptorOf(c)
      raw == extract_signal_raw(frames[c.frame].msg.data, s.start_bit,
                                s.signal_size, s.byte_order = "BigEndian")
      n == IF s.value_type = "Signed"
           THEN I64ToInt(SignedValue(raw.value, s.signal_size))
           ELSE SumBits(raw.value, s.signal_size)
  IN n * (s.factor \div 2) + (s.offset \div 2)

\* C16 (as stated): the value stored for a point of an integer-stored signal
\* is raw * factor + offset, also for an unsigned signal with a negative
\* offset (unsigned, factor 1, offset -40, raw 100 stores 60).
C16_IntegerScalingAsStated ==
  \A i \in 1..Len(contributions) :
    LET c == contributions[i]
    IN (phase = "build" /\ c.kind \in {"I64", "U64"})
         => \E p \in 1..Len(data[c.name].points) :
              /\ data[c.name].points[p].timestamp = c.timestamp
              /\ data[c.name].points[p].value = IntTo64(ScaledValue(c))

\* A DBC of the bus gives the signal of that message an IEEE float extended
\* value type
FloatTyped(bus_idx, message_id, signal_name) ==
  \E i \in 1..Len(dbcs[bus_idx + 1]) :
    \E e \in 1..Len(dbcs[bus_idx + 1][i].value_types) :
      /\ dbcs[bus_idx + 1][i].value_types[e].message_id = message_id
      /\ dbcs[bus_idx + 1][i].value_types[e].signal_name = signal_name
      /\ dbcs[bus_idx + 1][i].value_types[e].signal_extended_value_type
           \in {"IEEEfloat32Bit", "IEEEdouble64bit"}

\* The signals of the message of an accepted frame f
SignalsOfFrame(f) ==
  LET at == MessageIndex(f.msg.channel, f.msg.arbitration_id)
  IN dbcs[f.msg.channel + 1][at[1]].messages[at[2]].signals

\* The signal k of the message of frame f, when it has one
SignalOfFrame(f, k) ==
  DescriptorOf([bus_idx |-> f.msg.channel, message_id |-> f.msg.arbitration_id,
                signal |-> k])

\* Signal k of the message of frame f is a Plain or Multiplexor signal that
\* is not float-typed and whose bits the data of f holds
PlainExtractable(f, k) ==
  /\ Accepted(f)
  /\ k <= Len(SignalsOfFrame(f))
  /\ SignalOfFrame(f, k).multiplexer_indicator.ind \in {"Plain", "Multiplexor"}
  /\ ~FloatTyped(f.msg.channel, f.msg.arbitration_id, SignalOfFrame(f, k).name)
  /\ extract_signal_raw(f.msg.data, SignalOfFrame(f, k).start_bit,
                        SignalOfFrame(f, k).signal_size,
                        SignalOfFrame(f, k).byte_order = "BigEndian").some

\* C17 (as stated): for every accepted frame, each Plain or Multiplexor
\* signal of its message whose bits can be extracted from the frame data
\* contributes a point, whether or not the switch of the message could be
\* extracted from the frame.
C17_PlainAlwaysDecodedAsStated ==
  \A i \in 1..Len(frames) :
    \A k \in 1..4 :
      (PlainExtractable(frames[i], k) /\ frames[i].outcome # "panic")
        => \E j \in 1..Len(contributions) :
             contributions[j].frame = i /\ contributions[j].signal = k

\* The message of the accepted frame f has a float-typed signal
HasFloatSignal(f) ==
  \E k \in 1..Len(SignalsOfFrame(f)) :
    FloatTyped(f.msg.channel, f.msg.arbitration_id, SignalOfFrame(f, k).name)

\* No point comes from a float-typed signal, and no series of the store is
\* without a point that was contributed
NoFloatPoint ==
  /\ \A i \in 1..Len(contributions) :
       ~FloatTyped(contributions[i].bus_idx, contributions[i].message_id,
                   contributions[i].name)
  /\ phase = "build" =>
       \A n \in DOMAIN data :
         \E i \in 1..Len(contributions) : contributions[i].name = n

\* The Plain signals beside a float-typed signal are decoded
OthersStillDecoded ==
  \A i \in 1..Len(frames) :
    (frames[i].outcome = "decoded" /\ HasFloatSignal(frames[i]))
      => \A k \in 1..4 :
           PlainExtractable(frames[i], k)
             => \E j \in 1..Len(contributions) :
                  contributions[j].frame = i /\ contributions[j].signal = k

\* C19: a signal to which a DBC of the frame's bus gives an IEEE float
\* extended value type never contributes a point to the store, for any
\* frame, while the other signals of the same message are still decoded.
C19_FloatDropped == NoFloatPoint /\ OthersStillDecoded

\* A frame of message 0x200 on bus 0 that holds the bits of the float-typed
\* "F" was decoded: "Sh" and "H" contributed a point, "F" none.
C19_Witness ==
  \E i \in 1..Len(frames) :
    /\ frames[i].outcome = "decoded"
    /\ frames[i].msg.channel = 0 /\ frames[i].msg.arbitration_id = 512
    /\ SignalOfFrame(frames[i], 4).name = <<70>>
    /\ FloatTyped(0, 512, <<70>>)
    /\ extract_signal_raw(frames[i].msg.data, SignalOfFrame(frames[i], 4).start_bit,
                          SignalOfFrame(frames[i], 4).signal_size, FALSE).some
    /\ \E j \in 1..Len(contributions) :
         contributions[j].frame = i /\ contributions[j].signal = 1
    /\ \E j \in 1..Len(contributions) :
         contributions[j].frame = i /\ contributions[j].signal = 2
    /\ \A j \in 1..Len(contributions) :
         contributions[j].frame = i => contributions[j].signal # 4

(***************************************************************************)
(* Claims about read_messages                                              *)
(***************************************************************************)
\* The containers read_messages is to skip: unknown compression method,
\* decompression error, body shorter than 16 bytes
SkippedKinds == {"method", "corrupt", "short"}

\* The outer objects read so far
ObjectsRead == SubSeq(input.objects, 1, Len(input.objects) - Len(containers))

\* A sequence of outer objects without the containers to skip
RECURSIVE WithoutSkipped(_)
WithoutSkipped(kinds) ==
  IF kinds = <<>> THEN <<>>
  ELSE IF Head(kinds) \in SkippedKinds THEN WithoutSkipped(Tail(kinds))
  ELSE <<Head(kinds)>> \o WithoutSkipped(Tail(kinds))

\* The bytes of these outer objects, one string each
ObjectsOf(kinds) == [i \in 1..Len(kinds) |-> OuterBytes(kinds[i])]

\* A run of read_messages on the objects read so far, the containers to
\* skip taken out of the file
RunWithoutSkipped ==
  read_messages(input.start_timestamp, ObjectsOf(WithoutSkipped(ObjectsRead)),
                overflow_checks)

\* The frames, the tail and the position are those of the file without the
\* containers to skip
SkippedLeaveNoTrace ==
  phase \in {"build", "done"}
    => RunWithoutSkipped = PassResult("done", all_messages, self_tail, self_pos)

\* The pass on a container to skip yields no frame, leaves the tail as it
\* is and does not end read_messages
SkipIsNotFatal ==
  (phase = "build" /\ containers # <<>>
     /\ input.objects[Len(ObjectsRead) + 1] \in SkippedKinds)
    => /\ all_messages' = all_messages
       /\ self_tail' = self_tail
       /\ phase' = "build"
       /\ containers' = Tail(containers)

\* C14: a LogContainer with an unknown compression method, a decompression
\* error or a body shorter than 16 bytes is skipped without failing
\* read_messages: it yields no frame, the carry-over tail is unchanged, and
\* the outer objects after it are read and yield their frames.
C14_ContainerSkip == []SkippedLeaveNoTrace /\ [][SkipIsNotFatal]_vars

\* A file was read to its end in which a container to skip lies between
\* the two halves of an inner object, and the object was yielded.
C14_Witness ==
  /\ phase = "done"
  /\ Len(input.objects) = 3
  /\ input.objects[1] = "half"
  /\ input.objects[2] \in SkippedKinds
  /\ input.objects[3] = "rest"
  /\ Len(all_messages) = 1

\* C20 (as stated): every pass of the while loop of parse_container_data
\* either stops the loop or moves the cursor forward, also on an inner
\* object of a header version other than 1 and 2 that declares obj_size 0,
\* so parse_container_data and read_messages come to an end on every file.
C20_TerminationAsStated == phase # "diverges"

====
